---- MODULE Spec2Model ----
(***************************************************************************)
(* Model of backend/main.py of the NEPSE pump-and-dump detector: the       *)
(* in-memory alert ledger (alerts_db, alert_counter and the three          *)
(* /api/alerts handlers), the weighted scorer of /api/analyze/{symbol}     *)
(* and the filter of /api/suspicious-stocks.                               *)
(*                                                                         *)
(* alerts_db is a module global bound to a Python list object.  A list is  *)
(* mutated in place by append and pop, while delete_alert rebinds the      *)
(* global to a freshly built list.  The model therefore keeps a heap of    *)
(* list objects and lets alerts_db name one of them.  An alert is modelled *)
(* by its id: the other fields (stock_symbol, alert_type, message,         *)
(* timestamp, risk_level) are copied from the request and are never read   *)
(* by any handler.                                                         *)
(***************************************************************************)
EXTENDS Integers, Sequences, FiniteSets, TLC

\* ------------------------------------------------------------------ bounds
\* Number of create_alert calls a behaviour may make.
MaxCreates == 53
\* delete_alert is called with the ids 0..MaxDeleteId (and the two ids
\* around the capacity, see DeleteIds).
MaxDeleteId == 2
\* Number of worker threads serving requests at once (SpecConc).
NThreads == 2

\* ------------------------------------------------------- program constants
\* "if len(alerts_db) > 50" (main.py:229)
MaxAlerts == 50

\* ------------------------------------------------------------------- state
VARIABLES
    heap,           \* list objects: object id -> sequence of alerts
    alerts_db,      \* the global name alerts_db: the object it is bound to
    alert_counter,  \* the global alert_counter
    pc,             \* per thread: position in the handler it is running
    loc,            \* per thread: the handler's locals and evaluation stack
    issued,         \* history: ids of the alerts create_alert has returned
    evicted,        \* history: ids removed by alerts_db.pop(0)
    del_req,        \* history: ids delete_alert has been called with
    removed,        \* history: ids of the alerts completed delete_alert calls dropped
    n_create,       \* history: number of create_alert calls started
    overlaps,       \* history: number of calls started while another was running
    feed,           \* what the upstream share-price API answered the last call
    response        \* the last response sent

vars == <<heap, alerts_db, alert_counter, pc, loc, issued, evicted, del_req,
          removed, n_create, overlaps, feed, response>>

Threads == 1..NThreads
\* One object per thread (a reference held in a local) and one for the global.
Objs == 0..NThreads

DeleteIds == (0..MaxDeleteId) \cup {MaxAlerts, MaxAlerts + 1}

\* ------------------------------------------------------------ list helpers
Ids(l) == {l[i].id : i \in 1..Len(l)}

\* Alert(id=alert_counter, ...)
Alert(n) == [id |-> n]

\* Mutant: the new element is put at the front of the list.
ListAppend_Front(l, x) == <<x>> \o l

\* list.append(x)
ListAppend(l, x) == Append(l, x)

\* list.pop(0) of a non-empty list
ListPop0(l) == Tail(l)

\* [a for a in l if a.id != alert_id]
RECURSIVE Without(_, _)
Without(l, alert_id) ==
    IF l = <<>> THEN <<>>
    ELSE IF Head(l).id /= alert_id
         THEN <<Head(l)>> \o Without(Tail(l), alert_id)
         ELSE Without(Tail(l), alert_id)

\* The list the global alerts_db is bound to.
Ledger == heap[alerts_db]

\* No thread holds a reference to object o.
Unreferenced(o) ==
    /\ o /= alerts_db
    /\ \A t \in Threads : loc[t].ref /= o

\* A fresh list object: the lowest unreferenced slot.
FreshObj ==
    CHOOSE o \in Objs : Unreferenced(o) /\ \A p \in Objs : Unreferenced(p) => o <= p

NoLocals ==
    [ref |-> -1, tmp |-> 0, new_alert |-> 0, alert_id |-> 0, idx |-> 0, out |-> <<>>,
     hit |-> FALSE]

AlertsInit ==
    /\ heap = [o \in Objs |-> <<>>]
    /\ alerts_db = 0
    /\ alert_counter = 0
    /\ pc = [t \in Threads |-> "idle"]
    /\ loc = [t \in Threads |-> NoLocals]
    /\ issued = {}
    /\ evicted = {}
    /\ del_req = {}
    /\ removed = {}
    /\ n_create = 0
    /\ overlaps = 0
    /\ response = [op |-> "none"]

\* --------------------------------------------- handlers, one call at a time
\* Mutant: the eviction is left out.
AfterCreate_NoEvict(l, n) == ListAppend(l, Alert(n))

\* Mutant: alerts_db.pop() instead of alerts_db.pop(0).
AfterCreate_PopLast(l, n) ==
    LET appended == ListAppend(l, Alert(n))
    IN  IF Len(appended) > MaxAlerts
        THEN SubSeq(appended, 1, Len(appended) - 1) ELSE appended

\* create_alert run to completion: the ledger after append and the eviction.
AfterCreate(l, n) ==
    LET appended == ListAppend(l, Alert(n))
    IN  IF Len(appended) > MaxAlerts THEN ListPop0(appended) ELSE appended

\* Mutant: the id is taken from the ledger's length.
NextId_FromLen(c) == Len(heap[alerts_db]) + 1

\* The id create_alert gives the new alert, the counter being c before the call.
NextId(c) == c + 1

\* POST /api/alerts
CreateAlert ==
    /\ n_create < MaxCreates
    /\ n_create' = n_create + 1
    /\ LET n == NextId(alert_counter)
           appended == ListAppend(Ledger, Alert(n))
       IN  /\ alert_counter' = alert_counter + 1
           /\ heap' = [heap EXCEPT ![alerts_db] = AfterCreate(Ledger, n)]
           /\ evicted' = IF AfterCreate(Ledger, n) /= appended
                         THEN evicted \cup {Head(appended).id} ELSE evicted
           /\ issued' = issued \cup {n}
           /\ response' = [op |-> "create", status |-> 200, id |-> n]
    /\ UNCHANGED <<alerts_db, pc, loc, del_req, removed, overlaps, feed>>

\* Mutant: an unknown id is answered with 404, as analyze_stock does.
DeleteStatus_404(l, alert_id) == IF alert_id \in Ids(l) THEN 200 ELSE 404

\* The status delete_alert answers with: {"message": "Alert deleted"}, always.
DeleteStatus(l, alert_id) == 200

\* DELETE /api/alerts/{alert_id}: the global is rebound to a new list and the
\* old list, which nothing refers to any more, is collected.
DeleteAlert(alert_id) ==
    /\ LET o == FreshObj
       IN  /\ heap' = [heap EXCEPT ![o] = Without(Ledger, alert_id),
                                   ![alerts_db] = <<>>]
           /\ alerts_db' = o
    /\ del_req' = del_req \cup {alert_id}
    /\ removed' = removed \cup ({alert_id} \cap Ids(Ledger))
    /\ response' = [op |-> "delete", status |-> DeleteStatus(Ledger, alert_id),
                    id |-> alert_id]
    /\ UNCHANGED <<alert_counter, pc, loc, issued, evicted, n_create, overlaps,
                   feed>>

\* GET /api/alerts
GetAlerts ==
    /\ response' = [op |-> "get", status |-> 200, body |-> Ledger]
    /\ UNCHANGED <<heap, alerts_db, alert_counter, pc, loc, issued, evicted,
                   del_req, removed, n_create, overlaps, feed>>

\* No call of the upstream API has been made.
NoFeed == [status_code |-> 200, data |-> <<>>]

Init == AlertsInit /\ feed = NoFeed

Next ==
    \/ CreateAlert
    \/ \E alert_id \in DeleteIds : DeleteAlert(alert_id)
    \/ GetAlerts

Spec == Init /\ [][Next]_vars

\* ------------------------------------------- handlers, on concurrent threads
\* FastAPI runs a "def" handler on a worker thread, so two handlers may run at
\* once.  The interpreter may switch threads between any two bytecodes: each
\* action below is one access to a shared global or to a shared list object,
\* together with the thread-local work that follows it.

\* Number of create_alert calls a concurrent behaviour may make.
MaxConcCreates == 51
\* Number of calls that may start while another call is running.
MaxOverlap == 1
\* The ids concurrent delete_alert calls are made with.
ConcDeleteIds == {1, MaxAlerts + 1}

\* The heap after a step: a list nothing refers to any more is collected.
Collect(h, g, l) ==
    [o \in Objs |-> IF o = g \/ \E t \in Threads : l[t].ref = o THEN h[o] ELSE <<>>]

\* Another call is running when thread t picks one up: at most MaxOverlap
\* calls of a behaviour start that way.
Arrive(t) ==
    LET busy == \E u \in Threads \ {t} : pc[u] /= "idle"
    IN  /\ busy => overlaps < MaxOverlap
        /\ overlaps' = IF busy THEN overlaps + 1 ELSE overlaps

\* A step of thread t that leaves the heap and the globals alone.
LocalStep(t, to, l) ==
    /\ pc' = [pc EXCEPT ![t] = to]
    /\ loc' = [loc EXCEPT ![t] = l]
    /\ heap' = Collect(heap, alerts_db, loc')
    /\ UNCHANGED feed

\* A worker thread picks up POST /api/alerts.
c_start(t) ==
    /\ pc[t] = "idle"
    /\ Arrive(t)
    /\ n_create < MaxConcCreates
    /\ n_create' = n_create + 1
    /\ pc' = [pc EXCEPT ![t] = "c_read"]
    /\ UNCHANGED <<heap, alerts_db, alert_counter, loc, issued, evicted,
                   del_req, removed, response>>
    /\ UNCHANGED feed

\* alert_counter += 1: LOAD_GLOBAL alert_counter
c_read(t) ==
    /\ pc[t] = "c_read"
    /\ LocalStep(t, "c_write", [loc[t] EXCEPT !.tmp = alert_counter])
    /\ UNCHANGED <<alerts_db, alert_counter, issued, evicted, del_req,
                   removed, n_create, response, overlaps>>

\* alert_counter += 1: BINARY_ADD, STORE_GLOBAL alert_counter
c_write(t) ==
    /\ pc[t] = "c_write"
    /\ alert_counter' = loc[t].tmp + 1
    /\ LocalStep(t, "c_id", [loc[t] EXCEPT !.tmp = 0])
    /\ UNCHANGED <<alerts_db, issued, evicted, del_req, removed, n_create,
                   response, overlaps>>

\* new_alert = Alert(id=alert_counter, ...): LOAD_GLOBAL alert_counter
c_id(t) ==
    /\ pc[t] = "c_id"
    /\ LocalStep(t, "c_load", [loc[t] EXCEPT !.new_alert = alert_counter])
    /\ UNCHANGED <<alerts_db, alert_counter, issued, evicted, del_req,
                   removed, n_create, response, overlaps>>

\* alerts_db.append(new_alert): LOAD_GLOBAL alerts_db
c_load(t) ==
    /\ pc[t] = "c_load"
    /\ LocalStep(t, "c_append", [loc[t] EXCEPT !.ref = alerts_db])
    /\ UNCHANGED <<alerts_db, alert_counter, issued, evicted, del_req,
                   removed, n_create, response, overlaps>>

\* alerts_db.append(new_alert): the call, on the list that was loaded
c_append(t) ==
    /\ pc[t] = "c_append"
    /\ pc' = [pc EXCEPT ![t] = "c_len_load"]
    /\ loc' = [loc EXCEPT ![t].ref = -1]
    /\ heap' = Collect([heap EXCEPT ![loc[t].ref] =
                            ListAppend(@, Alert(loc[t].new_alert))],
                       alerts_db, loc')
    /\ UNCHANGED <<alerts_db, alert_counter, issued, evicted, del_req,
                   removed, n_create, response, overlaps>>
    /\ UNCHANGED feed

\* if len(alerts_db) > 50: LOAD_GLOBAL alerts_db
c_len_load(t) ==
    /\ pc[t] = "c_len_load"
    /\ LocalStep(t, "c_len", [loc[t] EXCEPT !.ref = alerts_db])
    /\ UNCHANGED <<alerts_db, alert_counter, issued, evicted, del_req,
                   removed, n_create, response, overlaps>>

\* if len(alerts_db) > 50: the call of len and the comparison
c_len(t) ==
    /\ pc[t] = "c_len"
    /\ LocalStep(t, IF Len(heap[loc[t].ref]) > MaxAlerts THEN "c_pop_load" ELSE "c_ret",
                 [loc[t] EXCEPT !.ref = -1])
    /\ UNCHANGED <<alerts_db, alert_counter, issued, evicted, del_req,
                   removed, n_create, response, overlaps>>

\* alerts_db.pop(0): LOAD_GLOBAL alerts_db
c_pop_load(t) ==
    /\ pc[t] = "c_pop_load"
    /\ LocalStep(t, "c_pop", [loc[t] EXCEPT !.ref = alerts_db])
    /\ UNCHANGED <<alerts_db, alert_counter, issued, evicted, del_req,
                   removed, n_create, response, overlaps>>

\* alerts_db.pop(0): the call, on the list that was loaded.  On an empty list
\* pop raises IndexError and the request ends with a 500.
c_pop(t) ==
    /\ pc[t] = "c_pop"
    /\ LET l == heap[loc[t].ref]
       IN  IF l = <<>>
           THEN /\ pc' = [pc EXCEPT ![t] = "idle"]
                /\ loc' = [loc EXCEPT ![t] = NoLocals]
                /\ heap' = Collect(heap, alerts_db, loc')
                /\ response' = [op |-> "create", status |-> 500, id |-> 0]
                /\ UNCHANGED evicted
           ELSE /\ pc' = [pc EXCEPT ![t] = "c_ret"]
                /\ loc' = [loc EXCEPT ![t].ref = -1]
                /\ heap' = Collect([heap EXCEPT ![loc[t].ref] = ListPop0(@)],
                                   alerts_db, loc')
                /\ evicted' = evicted \cup {Head(l).id}
                /\ UNCHANGED response
    /\ UNCHANGED <<alerts_db, alert_counter, issued, del_req, removed, n_create,
                   overlaps>>
    /\ UNCHANGED feed

\* return new_alert
c_ret(t) ==
    /\ pc[t] = "c_ret"
    /\ issued' = issued \cup {loc[t].new_alert}
    /\ response' = [op |-> "create", status |-> 200, id |-> loc[t].new_alert]
    /\ LocalStep(t, "idle", NoLocals)
    /\ UNCHANGED <<alerts_db, alert_counter, evicted, del_req, removed, n_create,
                   overlaps>>

\* A worker thread picks up DELETE /api/alerts/{alert_id}; a behaviour calls
\* it once for each id of ConcDeleteIds.
d_start(t, alert_id) ==
    /\ pc[t] = "idle"
    /\ Arrive(t)
    /\ alert_id \notin del_req
    /\ del_req' = del_req \cup {alert_id}
    /\ LocalStep(t, "d_load", [loc[t] EXCEPT !.alert_id = alert_id])
    /\ UNCHANGED <<alerts_db, alert_counter, issued, evicted, removed,
                   n_create, response>>

\* [a for a in alerts_db if ...]: LOAD_GLOBAL alerts_db, GET_ITER
d_load(t) ==
    /\ pc[t] = "d_load"
    /\ LocalStep(t, "d_iter", [loc[t] EXCEPT !.ref = alerts_db, !.idx = 0, !.out = <<>>])
    /\ UNCHANGED <<alerts_db, alert_counter, issued, evicted, del_req,
                   removed, n_create, response, overlaps>>

\* One turn of the comprehension: the list iterator yields the element at its
\* index, if the list (as it is now) has one, and a.id != alert_id decides
\* whether it is kept; otherwise the iterator is exhausted.
d_iter(t) ==
    /\ pc[t] = "d_iter"
    /\ LET l == heap[loc[t].ref]
           i == loc[t].idx
       IN  IF i < Len(l)
           THEN LocalStep(t, "d_iter",
                    [loc[t] EXCEPT !.idx = i + 1,
                                   !.out = IF l[i + 1].id /= loc[t].alert_id
                                           THEN Append(@, l[i + 1]) ELSE @,
                                   !.hit = @ \/ l[i + 1].id = loc[t].alert_id])
           ELSE LocalStep(t, "d_store", [loc[t] EXCEPT !.ref = -1, !.idx = 0])
    /\ UNCHANGED <<alerts_db, alert_counter, issued, evicted, del_req,
                   removed, n_create, response, overlaps>>

\* alerts_db = [...]: STORE_GLOBAL alerts_db
d_store(t) ==
    /\ pc[t] = "d_store"
    /\ alerts_db' = FreshObj
    /\ pc' = [pc EXCEPT ![t] = "d_ret"]
    /\ loc' = [loc EXCEPT ![t].out = <<>>]
    /\ heap' = Collect([heap EXCEPT ![FreshObj] = loc[t].out], alerts_db', loc')
    /\ UNCHANGED <<alert_counter, issued, evicted, del_req, removed, n_create,
                   response, overlaps>>
    /\ UNCHANGED feed

\* return {"message": "Alert deleted"}
d_ret(t) ==
    /\ pc[t] = "d_ret"
    /\ removed' = IF loc[t].hit THEN removed \cup {loc[t].alert_id} ELSE removed
    /\ response' = [op |-> "delete", status |-> 200, id |-> loc[t].alert_id]
    /\ LocalStep(t, "idle", NoLocals)
    /\ UNCHANGED <<alerts_db, alert_counter, issued, evicted, del_req, n_create,
                   overlaps>>

\* GET /api/alerts: return alerts_db (LOAD_GLOBAL alerts_db)
g_load(t) ==
    /\ pc[t] = "idle"
    /\ Arrive(t)
    /\ LocalStep(t, "g_ret", [loc[t] EXCEPT !.ref = alerts_db])
    /\ UNCHANGED <<alerts_db, alert_counter, issued, evicted, del_req,
                   removed, n_create, response>>

\* The list that was returned is serialised into the response.
g_ret(t) ==
    /\ pc[t] = "g_ret"
    /\ response' = [op |-> "get", status |-> 200, body |-> heap[loc[t].ref]]
    /\ LocalStep(t, "idle", NoLocals)
    /\ UNCHANGED <<alerts_db, alert_counter, issued, evicted, del_req,
                   removed, n_create, overlaps>>

NextConc ==
    \E t \in Threads :
        \/ c_start(t) \/ c_read(t) \/ c_write(t) \/ c_id(t) \/ c_load(t)
        \/ c_append(t) \/ c_len_load(t) \/ c_len(t) \/ c_pop_load(t)
        \/ c_pop(t) \/ c_ret(t)
        \/ \E alert_id \in ConcDeleteIds : d_start(t, alert_id)
        \/ d_load(t) \/ d_iter(t) \/ d_store(t) \/ d_ret(t)
        \/ g_load(t) \/ g_ret(t)

SpecConc == Init /\ [][NextConc]_vars

\* --------------------------------------------------- share-price feed records
\* A field of a feed record (a JSON object) is a number, null, or absent.
Num(n) == [t |-> "num", v |-> n]
None == [t |-> "none", v |-> 0]
Missing == [t |-> "missing", v |-> 0]
\* The symbol of a record: a string, null, or absent.
NoneSymbol == "<null>"
MissingSymbol == "<missing>"

\* stock.get(key, 0)
Get(stock, key) == IF stock[key].t = "missing" THEN Num(0) ELSE stock[key]

\* stock.get('symbol', 'N/A')
GetSymbol(stock) == IF stock.symbol = MissingSymbol THEN "N/A" ELSE stock.symbol

\* x > n raises TypeError unless x is a number.
IsNum(x) == x.t = "num"

\* Longest batch the upstream API answers /api/suspicious-stocks with, but for
\* the batches of LongBatches.
MaxBatch == 2
\* How many entries the response of /api/suspicious-stocks lists (main.py:200).
MaxListed == 20

Stock(sym, ltp, change, volume, high, low) ==
    [symbol |-> sym, lastTradedPrice |-> ltp, percentageChange |-> change,
     totalTradeQuantity |-> volume, highPrice |-> high, lowPrice |-> low]

\* The records /api/analyze/{symbol} is checked on.
AnalyzeChanges == {Missing, None} \cup {Num(n) : n \in {-6, 0, 5, 6, 10, 11, 12}}
AnalyzeVolumes ==
    {Missing, None} \cup {Num(n) : n \in {0, 50000, 50001, 100000, 100001, 120000}}
AnalyzeHighLow ==
    {<<Missing, Missing>>, <<None, Num(100)>>, <<Missing, None>>, <<Num(100), None>>,
     <<Num(100), Num(0)>>, <<Num(105), Num(100)>>, <<Num(106), Num(100)>>,
     <<Num(110), Num(100)>>, <<Num(107), Num(90)>>, <<Num(90), Num(100)>>}
AnalyzeStocks ==
    {Stock("XYZ", ltp, c, v, hl[1], hl[2]) :
        ltp \in {None, Num(100)}, c \in AnalyzeChanges, v \in AnalyzeVolumes,
        hl \in AnalyzeHighLow}
AnalyzeFeeds ==
    {[status_code |-> 200, data |-> <<>>], [status_code |-> 503, data |-> <<>>],
     [status_code |-> 0, data |-> <<>>]}
    \cup {[status_code |-> 200, data |-> <<s>>] : s \in AnalyzeStocks}

\* The records /api/suspicious-stocks is checked on.
BatchStocks ==
    {Stock(sym, Num(100), c, v, Missing, Missing) :
        sym \in {"ABC", MissingSymbol},
        c \in {None, Num(0), Num(6), Num(11)},
        v \in {None, Num(0), Num(50001)}}
Batches == UNION {[1..n -> BatchStocks] : n \in 0..MaxBatch}
\* Batches of one record more than the response lists: a, b, a, b, ...
LongBatches ==
    {[i \in 1..(MaxListed + 1) |-> IF i % 2 = 1 THEN a ELSE b] :
        a \in BatchStocks, b \in BatchStocks}
SuspiciousFeeds ==
    {[status_code |-> 503, data |-> <<>>], [status_code |-> 0, data |-> <<>>]}
    \cup {[status_code |-> 200, data |-> b] : b \in Batches \cup LongBatches}

\* ------------------------------------------------- /api/analyze/{symbol}
Signal(text, arg) == [text |-> text, arg |-> arg]
NoPatterns == Signal("No suspicious patterns detected", 0)

\* f"{volatility:.1f}" in tenths of a percent: ((high - low) / low) * 100
\* rounded to one decimal, a tie going to the even digit.
Tenths(high, low) ==
    LET q == ((high - low) * 1000) \div low
        r == ((high - low) * 1000) % low
    IN  IF 2 * r > low \/ (2 * r = low /\ q % 2 = 1) THEN q + 1 ELSE q

\* Mutant: "if" for "elif", both price checks count.
PriceCheck_Both(price_change) ==
    IF price_change > 10
    THEN [score |-> 60, signals |-> <<Signal("Unusual price spike detected (+10%)", 0),
                                      Signal("Significant price increase (+5%)", 0)>>]
    ELSE IF price_change > 5
         THEN [score |-> 20, signals |-> <<Signal("Significant price increase (+5%)", 0)>>]
         ELSE [score |-> 0, signals |-> <<>>]

\* Check for unusual price increase (main.py:119-125)
PriceCheck(price_change) ==
    IF price_change > 10
    THEN [score |-> 40, signals |-> <<Signal("Unusual price spike detected (+10%)", 0)>>]
    ELSE IF price_change > 5
         THEN [score |-> 20, signals |-> <<Signal("Significant price increase (+5%)", 0)>>]
         ELSE [score |-> 0, signals |-> <<>>]

\* Check for high volume (main.py:127-133)
VolumeCheck(volume) ==
    IF volume > 100000
    THEN [score |-> 30, signals |-> <<Signal("High trading volume detected", 0)>>]
    ELSE IF volume > 50000
         THEN [score |-> 15, signals |-> <<Signal("Elevated trading volume", 0)>>]
         ELSE [score |-> 0, signals |-> <<>>]

\* Check for price volatility (main.py:135-142), high and low being numbers
\* wherever they are compared.
VolatilityCheck(high, low) ==
    IF high > 0 /\ low > 0 /\ (high - low) * 100 > 5 * low
    THEN [score |-> 20, signals |-> <<Signal("High volatility", Tenths(high, low))>>]
    ELSE [score |-> 0, signals |-> <<>>]

\* "high > 0 and low > 0" raises TypeError: high is compared first, and low
\* only if high > 0.
VolatilityRaises(high, low) ==
    \/ ~IsNum(high)
    \/ (high.v > 0 /\ ~IsNum(low))

\* Mutant: ">" for ">=" at both tier boundaries.
RiskLevel_Exclusive(risk_score) ==
    IF risk_score > 70 THEN "High" ELSE IF risk_score > 40 THEN "Medium" ELSE "Low"

\* Determine risk level (main.py:144-150)
RiskLevel(risk_score) ==
    IF risk_score >= 70 THEN "High" ELSE IF risk_score >= 40 THEN "Medium" ELSE "Low"

\* Mutant: the "no suspicious patterns" signal is added to every Low result.
FinalSignals_AlwaysOnLow(risk_level, signals) ==
    IF risk_level = "Low" THEN Append(signals, NoPatterns) ELSE signals

\* main.py:149-152
FinalSignals(risk_level, signals) ==
    IF risk_level = "Low" /\ signals = <<>> THEN <<NoPatterns>> ELSE signals

Min(a, b) == IF a < b THEN a ELSE b

Failure(op, code) == [op |-> op, status |-> code]

\* The body of analyze_stock from "stock = data[0]" on.  Any exception (a
\* TypeError of a comparison with None, the validation error of StockAnalysis
\* for a current_price, price_change_percent or volume that is no number)
\* ends in HTTPException(500).
Analysis(stock) ==
    LET price_change == Get(stock, "percentageChange")
        volume == Get(stock, "totalTradeQuantity")
        ltp == Get(stock, "lastTradedPrice")
        high == Get(stock, "highPrice")
        low == Get(stock, "lowPrice")
    IN  IF \/ ~IsNum(price_change)
           \/ ~IsNum(volume)
           \/ VolatilityRaises(high, low)
           \/ ~IsNum(ltp)
        THEN Failure("analyze", 500)
        ELSE LET p == PriceCheck(price_change.v)
                 q == VolumeCheck(volume.v)
                 r == VolatilityCheck(high.v, IF IsNum(low) THEN low.v ELSE 0)
                 risk_score == p.score + q.score + r.score
                 signals == p.signals \o q.signals \o r.signals
                 risk_level == RiskLevel(risk_score)
             IN  [op |-> "analyze", status |-> 200,
                  current_price |-> ltp.v,
                  price_change_percent |-> price_change.v,
                  volume |-> volume.v,
                  risk_score |-> Min(risk_score, 100),
                  risk_level |-> risk_level,
                  signals |-> FinalSignals(risk_level, signals)]

\* GET /api/analyze/{symbol}; status_code 0 stands for requests.get raising.
analyze_stock(f) ==
    IF f.status_code = 0 THEN Failure("analyze", 500)
    ELSE IF f.status_code /= 200 THEN Failure("analyze", 404)
    ELSE IF Len(f.data) = 0 THEN Failure("analyze", 404)
    ELSE Analysis(f.data[1])

AlertsUnchanged ==
    UNCHANGED <<heap, alerts_db, alert_counter, pc, loc, issued, evicted, del_req,
                removed, n_create, overlaps>>

\* The handler applied to what the upstream API answered.
AnalyzeStock ==
    /\ response.op = "none"
    /\ response' = analyze_stock(feed)
    /\ UNCHANGED feed
    /\ AlertsUnchanged

\* ------------------------------------------------- /api/suspicious-stocks
\* Mutant: a third tier, "Low", for the records listed for their volume.
RiskIndicator_ThreeTiers(price_change) ==
    IF price_change > 10 THEN "High" ELSE IF price_change > 5 THEN "Medium" ELSE "Low"

\* "High" if price_change > 10 else "Medium"
RiskIndicator(price_change) == IF price_change > 10 THEN "High" ELSE "Medium"

\* "price_change > 5 or volume > 50000" raises TypeError: volume is compared
\* only if price_change > 5 is false.
FilterRaises(price_change, volume) ==
    \/ ~IsNum(price_change)
    \/ (~(price_change.v > 5) /\ ~IsNum(volume))

\* price_change > 5 or volume > 50000, where it does not raise
IsSuspicious(price_change, volume) ==
    \/ price_change.v > 5
    \/ volume.v > 50000

\* The entry appended for a record that passes the filter.
Entry(stock) ==
    [symbol |-> GetSymbol(stock),
     ltp |-> Get(stock, "lastTradedPrice"),
     change_percent |-> Get(stock, "percentageChange").v,
     volume |-> Get(stock, "totalTradeQuantity"),
     risk_indicator |-> RiskIndicator(Get(stock, "percentageChange").v)]

\* The loop over data: the entries appended so far, or "raised".
RECURSIVE Scan(_, _)
Scan(data, suspicious) ==
    IF data = <<>> THEN [raised |-> FALSE, suspicious |-> suspicious]
    ELSE LET stock == Head(data)
             price_change == Get(stock, "percentageChange")
             volume == Get(stock, "totalTradeQuantity")
         IN  IF FilterRaises(price_change, volume)
             THEN [raised |-> TRUE, suspicious |-> suspicious]
             ELSE Scan(Tail(data),
                       IF IsSuspicious(price_change, volume)
                       THEN Append(suspicious, Entry(stock)) ELSE suspicious)

\* x into a list sorted by change_percent, largest first, behind its equals.
RECURSIVE InsertDesc(_, _)
InsertDesc(sorted, x) ==
    IF sorted = <<>> THEN <<x>>
    ELSE IF Head(sorted).change_percent >= x.change_percent
         THEN <<Head(sorted)>> \o InsertDesc(Tail(sorted), x)
         ELSE <<x>> \o sorted

\* Mutant: reverse=True is left out, the least change comes first.
RECURSIVE SortDesc_Ascending(_)
SortDesc_Ascending(l) ==
    IF l = <<>> THEN <<>>
    ELSE LET rest == SortDesc_Ascending(Tail(l))
             lower == SelectSeq(rest, LAMBDA y : y.change_percent < Head(l).change_percent)
             upper == SelectSeq(rest, LAMBDA y : y.change_percent >= Head(l).change_percent)
         IN  lower \o <<Head(l)>> \o upper

\* suspicious.sort(key=lambda x: x['change_percent'], reverse=True): stable
RECURSIVE SortDesc(_)
SortDesc(l) ==
    IF l = <<>> THEN <<>>
    ELSE InsertDesc(SortDesc(SubSeq(l, 1, Len(l) - 1)), l[Len(l)])

\* suspicious[:20]
Listed(l) == SubSeq(l, 1, Min(Len(l), MaxListed))

\* GET /api/suspicious-stocks
get_suspicious_stocks(f) ==
    IF f.status_code = 0 THEN Failure("suspicious", 500)
    ELSE IF f.status_code /= 200
         THEN [op |-> "suspicious", status |-> 200, suspicious_stocks |-> <<>>,
               total |-> 0]
    ELSE LET scan == Scan(f.data, <<>>)
         IN  IF scan.raised THEN Failure("suspicious", 500)
             ELSE [op |-> "suspicious", status |-> 200,
                   suspicious_stocks |-> Listed(SortDesc(scan.suspicious)),
                   total |-> Len(scan.suspicious)]

\* The handler applied to what the upstream API answered.
GetSuspiciousStocks ==
    /\ response.op = "none"
    /\ response' = get_suspicious_stocks(feed)
    /\ UNCHANGED feed
    /\ AlertsUnchanged

\* One request, served on any answer of the upstream API.
InitFeed == AlertsInit /\ feed \in AnalyzeFeeds \cup SuspiciousFeeds

NextFeed ==
    \/ AnalyzeStock
    \/ GetSuspiciousStocks

SpecFeed == InitFeed /\ [][NextFeed]_vars

\* ------------------------------------------------- claims, concurrent calls
\* C3: under concurrent create_alert, delete_alert and get_alerts calls no
\* update is lost: an alert create_alert has returned is in the ledger unless
\* a delete_alert was called with its id or alerts_db.pop(0) evicted it, and
\* an alert a completed delete_alert dropped is not in the ledger again.
C3_NoLostUpdate ==
    /\ \A i \in issued : i \in Ids(Ledger) \/ i \in del_req \/ i \in evicted
    /\ \A i \in removed : i \notin Ids(Ledger)

\* C4: under concurrent create_alert calls no two alerts returned carry the
\* same id: a create_alert never returns an id an earlier one has returned.
C4_UniqueIds ==
    [][\A t \in Threads :
          (pc[t] = "c_ret" /\ pc'[t] = "idle") => loc[t].new_alert \notin issued]_vars

\* ------------------------------------------------- claims, sequential calls
\* C1: in every state reachable by create_alert and delete_alert calls from
\* the empty ledger, the ledger holds at most 50 alerts.
C1_LedgerBounded == Len(Ledger) <= MaxAlerts

\* A full ledger after an eviction and a delete.
C1_Witness ==
    /\ Len(Ledger) = MaxAlerts
    /\ evicted /= {}
    /\ removed \cap issued /= {}

\* C2: a create_alert on a ledger of 50 removes exactly the oldest alert (the
\* head, which has the least id), keeps the other 49 in place and appends the
\* new alert; after 51 creates and no delete the ledger has length 50 and
\* does not hold the first alert created.
C2_FifoEviction ==
    /\ [][(response'.op = "create" /\ Len(Ledger) = MaxAlerts)
            => /\ Ledger' = Append(Tail(Ledger), Alert(response'.id))
               /\ \A i \in Ids(Ledger) : Head(Ledger).id <= i
               /\ evicted' = evicted \cup {Head(Ledger).id}]_vars
    /\ []((alert_counter = MaxAlerts + 1 /\ del_req = {})
            => /\ Len(Ledger) = MaxAlerts
               /\ 1 \notin Ids(Ledger)
               /\ MaxAlerts + 1 \in Ids(Ledger))

\* The 51st create, with no delete before it, has just evicted alert 1.
C2_Witness ==
    /\ alert_counter = MaxAlerts + 1
    /\ del_req = {}
    /\ response.op = "create"
    /\ evicted = {1}

\* C5: each create_alert returns an id greater than every id returned before
\* it (so no id is reused after a delete or an eviction), and delete_alert
\* leaves the counter alone.
C5_MonotonicIds ==
    [][/\ response'.op = "create" => \A i \in issued : response'.id > i
       /\ response'.op = "delete" => alert_counter' = alert_counter]_vars

\* A create answered after an issued alert was deleted and another evicted.
C5_Witness ==
    /\ response.op = "create"
    /\ removed \cap issued /= {}
    /\ evicted /= {}

\* C6: delete_alert with an id no stored alert has leaves the ledger and its
\* order unchanged and answers without an error; a second delete_alert of
\* the same id leaves the ledger as the first one left it.
C6_DeleteUnknownNoop ==
    [][/\ (response'.op = "delete" /\ response'.id \notin Ids(Ledger))
            => (Ledger' = Ledger /\ response'.status = 200)
       /\ (response.op = "delete" /\ response'.op = "delete"
             /\ response'.id = response.id)
            => Ledger' = Ledger]_vars

\* A delete of a never issued id answered on a non-empty ledger.
C6_Witness ==
    /\ response.op = "delete"
    /\ response.id \notin issued
    /\ Ledger /= <<>>

\* ------------------------------------------------- claims, the weighted scorer
\* analyze_stock answered with an analysis (no exception, no 404).
Analyzed == response.op = "analyze" /\ response.status = 200

\* The record analyze_stock scored, its absent fields read as 0.
Scored(key) == Get(feed.data[1], key).v

\* The three contributions, as the claims state them.
PriceContribution ==
    IF Scored("percentageChange") > 10 THEN 40
    ELSE IF Scored("percentageChange") > 5 THEN 20 ELSE 0
VolumeContribution ==
    IF Scored("totalTradeQuantity") > 100000 THEN 30
    ELSE IF Scored("totalTradeQuantity") > 50000 THEN 15 ELSE 0
VolatilityContribution ==
    IF /\ Scored("highPrice") > 0
       /\ Scored("lowPrice") > 0
       /\ (Scored("highPrice") - Scored("lowPrice")) * 100 > 5 * Scored("lowPrice")
    THEN 20 ELSE 0
Triggered ==
    (IF PriceContribution > 0 THEN 1 ELSE 0)
    + (IF VolumeContribution > 0 THEN 1 ELSE 0)
    + (IF VolatilityContribution > 0 THEN 1 ELSE 0)

\* C7: the reported risk_score lies in [0,100] and the reported level agrees
\* with it: High exactly when score >= 70, Medium exactly when
\* 40 <= score < 70, Low exactly when score < 40.
C7_ScoreAndLevel ==
    Analyzed =>
        /\ response.risk_score >= 0
        /\ response.risk_score <= 100
        /\ response.risk_level = "High" <=> response.risk_score >= 70
        /\ response.risk_level = "Medium"
             <=> (response.risk_score >= 40 /\ response.risk_score < 70)
        /\ response.risk_level = "Low" <=> response.risk_score < 40

\* A score on the lower edge of Medium.
C7_Witness ==
    /\ Analyzed
    /\ response.risk_score = 40
    /\ response.risk_level = "Medium"

\* C8: the score is the sum of the price contribution (40 above 10, else 20
\* above 5), the volume contribution (30 above 100000, else 15 above 50000)
\* and the volatility contribution (20 if high > 0, low > 0 and
\* (high-low)/low*100 > 5); change 12, volume 120000, high 110, low 100
\* scores 90 and is rated High.
C8_ScoreIsSum ==
    Analyzed =>
        /\ response.risk_score
             = PriceContribution + VolumeContribution + VolatilityContribution
        /\ (/\ Scored("percentageChange") = 12
            /\ Scored("totalTradeQuantity") = 120000
            /\ Scored("highPrice") = 110
            /\ Scored("lowPrice") = 100)
           => (response.risk_score = 90 /\ response.risk_level = "High")

\* The example of the claim has been scored.
C8_Witness ==
    /\ Analyzed
    /\ feed.data[1].percentageChange = Num(12)
    /\ feed.data[1].totalTradeQuantity = Num(120000)
    /\ feed.data[1].highPrice = Num(110)
    /\ feed.data[1].lowPrice = Num(100)
    /\ response.risk_score = 90

\* C9: the signal list is never empty, each triggered check adds exactly one
\* signal, and the "no suspicious patterns" signal is there exactly when the
\* level is Low and no check triggered (score 0), and then alone.
C9_SignalsNeverEmpty ==
    Analyzed =>
        LET signals == response.signals
            synthesized == \E i \in 1..Len(signals) : signals[i] = NoPatterns
        IN  /\ Len(signals) >= 1
            /\ synthesized <=> (response.risk_level = "Low" /\ Triggered = 0)
            /\ Triggered = 0 <=> response.risk_score = 0
            /\ synthesized => signals = <<NoPatterns>>
            /\ ~synthesized => Len(signals) = Triggered

\* A Low result with a triggered check: its signal and no synthesized one.
C9_Witness ==
    /\ Analyzed
    /\ response.risk_level = "Low"
    /\ response.risk_score > 0
    /\ Len(response.signals) = 1

\* ------------------------------------------------- claims, the suspicious query
\* get_suspicious_stocks answered with a list.
Listing == response.op = "suspicious" /\ response.status = 200

\* Entry e was made from record stock of the batch.
MadeFrom(e, stock) ==
    /\ IsNum(Get(stock, "percentageChange"))
    /\ e.change_percent = Get(stock, "percentageChange").v
    /\ e.volume = Get(stock, "totalTradeQuantity")
    /\ e.ltp = Get(stock, "lastTradedPrice")
    /\ e.symbol = GetSymbol(stock)

\* C10 as stated: every entry returned by the suspicious query is one of the
\* batch's records, and the classifier (analyze_stock's risk level) rates
\* that record High or Medium, never Low.  A record analyze_stock fails on
\* is not held against the statement.
C10_ListedAreRatedByScorer ==
    Listing =>
        \A k \in 1..Len(response.suspicious_stocks) :
            \E i \in 1..Len(feed.data) :
                /\ MadeFrom(response.suspicious_stocks[k], feed.data[i])
                /\ Analysis(feed.data[i]).status = 200
                     => Analysis(feed.data[i]).risk_level \in {"High", "Medium"}

\* C10 amended: every entry returned is made from one of the batch's records,
\* one with change > 5 or volume > 50000, and carries the query's own
\* risk_indicator, which is High (change > 10) or Medium, never Low.
C10_ListedCarryIndicator ==
    Listing =>
        \A k \in 1..Len(response.suspicious_stocks) :
            LET e == response.suspicious_stocks[k]
            IN  /\ \E i \in 1..Len(feed.data) :
                      /\ MadeFrom(e, feed.data[i])
                      /\ \/ e.change_percent > 5
                         \/ (IsNum(e.volume) /\ e.volume.v > 50000)
                /\ e.risk_indicator \in {"High", "Medium"}
                /\ e.risk_indicator = "High" <=> e.change_percent > 10

\* A record listed for its volume alone, next to one listed for its change.
C10_Witness ==
    /\ Listing
    /\ Len(response.suspicious_stocks) = 2
    /\ response.suspicious_stocks[1].change_percent > 10
    /\ response.suspicious_stocks[2].change_percent <= 5

\* The records of the batch that pass the filter, as entries, in feed order.
RECURSIVE Passing(_)
Passing(data) ==
    IF data = <<>> THEN <<>>
    ELSE LET stock == Head(data)
             change == Get(stock, "percentageChange")
             volume == Get(stock, "totalTradeQuantity")
             e == [symbol |-> GetSymbol(stock),
                   ltp |-> Get(stock, "lastTradedPrice"),
                   change_percent |-> change.v,
                   volume |-> volume,
                   risk_indicator |-> IF change.v > 10 THEN "High" ELSE "Medium"]
         IN  IF change.v > 5 \/ (IsNum(volume) /\ volume.v > 50000)
             THEN <<e>> \o Passing(Tail(data)) ELSE Passing(Tail(data))

\* The place of the j-th passing record in the response: behind every passing
\* record of a greater change and every earlier one of the same change.
Rank(p, j) ==
    1 + Cardinality({i \in 1..Len(p) :
                        \/ p[i].change_percent > p[j].change_percent
                        \/ (p[i].change_percent = p[j].change_percent /\ i < j)})

\* C11 as stated: the suspicious query returns the records that pass the
\* filter in feed order, none reordered and none omitted.
C11_ListedInFeedOrder ==
    Listing => response.suspicious_stocks = Passing(feed.data)

\* C11 amended: the suspicious query returns the records that pass the filter
\* sorted by percent change, greatest first, records of equal change in feed
\* order, cut to the first 20; total counts every passing record.
C11_ListedByChange ==
    Listing =>
        LET p == Passing(feed.data)
            r == response.suspicious_stocks
        IN  /\ response.total = Len(p)
            /\ Len(r) = Min(Len(p), 20)
            /\ \A j \in 1..Len(p) : Rank(p, j) <= 20 => r[Rank(p, j)] = p[j]

\* 21 records pass: 20 are listed, and not in feed order.
C11_Witness ==
    /\ Listing
    /\ response.total = 21
    /\ Len(response.suspicious_stocks) = 20
    /\ response.suspicious_stocks /= SubSeq(Passing(feed.data), 1, 20)


\* ---------------------------------------------------------------------------
\* C12: a record of the feed never makes analysis or the suspicious scan end
\* in an error: whenever the upstream API answered 200 with a record to read,
\* whatever fields of the record are missing or null, analyze_stock and
\* get_suspicious_stocks answer with a result (status 200), never with 500.
C12_NeverRaises ==
    /\ (/\ response.op = "analyze"
        /\ feed.status_code = 200
        /\ Len(feed.data) >= 1) => response.status = 200
    /\ (/\ response.op = "suspicious"
        /\ feed.status_code = 200) => response.status = 200


\* ---------------------------------------------------------------------------
\* The alerts of l are in strictly ascending id order.
Ascending(l) == \A i \in 1..Len(l), j \in 1..Len(l) : i < j => l[i].id < l[j].id

\* l without its k-th element, the others in their order.
DropAt(l, k) == SubSeq(l, 1, k - 1) \o SubSeq(l, k + 1, Len(l))

\* C13: with the handlers called one at a time, the ledger is always in
\* strictly ascending id order, which is creation order; get_alerts answers
\* with the whole ledger in that order; and delete_alert of an id that is in
\* the ledger removes that one alert and leaves the others in their order.
C13_LedgerOldestFirst ==
    /\ [](Ascending(Ledger))
    /\ [](response.op = "get" => response.body = Ledger)
    /\ [][(response'.op = "delete" /\ response'.id \in Ids(Ledger)) =>
            \E k \in 1..Len(Ledger) :
                /\ Ledger[k].id = response'.id
                /\ heap'[alerts_db'] = DropAt(Ledger, k)]_vars

\* Alert 2 has been deleted from between alerts 1 and 3, and get_alerts has
\* answered since with more than one alert.
C13_Witness ==
    /\ response.op = "get"
    /\ Len(response.body) >= 2
    /\ 2 \in removed
    /\ {1, 3} \subseteq Ids(response.body)

====
